---- MODULE Spec2Model ----
(***************************************************************************)
(* Nebula terminal emulator: the character grid and its operations, the   *)
(* escape-sequence interpreter (TerminalPerformer), the PTY read loop of  *)
(* spawn_pty and the render/input context that shares state with it.      *)
(*                                                                         *)
(* Cells are addressed as in the source, from 0: cell (x, y) of a grid g   *)
(* is g.cells[y + 1][x + 1].                                               *)
(***************************************************************************)
EXTENDS Integers, Sequences, FiniteSets

VARIABLES
    grid,         \* performer.grid: the TerminalGrid the interpreter owns
    written,      \* bytes the last interpreter event wrote to the writer handle
    status,       \* "running", or how the interpreting thread stopped
    \* the PTY read-loop thread of spawn_pty
    pty_pc,       \* where the thread is
    last_read,    \* outcome of the latest reader.read: "none", "data", "eof", "error"
    n_reads,      \* reads done so far
    exit_reason,  \* why the loop was left
    handles,      \* the PTY session each handle refers to
    \* the shared render state (Terminal / TerminalState)
    text_content, buffer, cursor_x, cursor_y, dirty,
    locks,        \* owner of each mutex: "free", "pty" or "ui"
    \* the render/input context (the winit event loop)
    ui_pc,        \* where the handler in progress is
    ui_key,       \* the key of the KeyboardInput event in progress
    ui_writes,    \* write_all calls of that key still to be made
    n_ui,         \* window events handled so far
    frame,        \* what render_frame has read in the frame in progress or last drawn
    stdin,        \* everything written to the child's stdin, in order
    \* history
    published,    \* the snapshots (text, cursor) the PTY thread has published
    wrote,        \* who wrote each shared cursor/dirty cell last
    \* the glyph atlas of the render context (GlyphAtlas)
    atlas,          \* cache, current_x, current_y, row_height, atlas_size
    texture_writes, \* the rectangles of the queue.write_texture calls, in order
    returned,       \* history: the rectangle of the first Ok of each key
    last_result     \* what the latest add_glyph returned

gridVars == <<grid, written, status>>
ptyVars == <<pty_pc, last_read, n_reads, exit_reason, handles>>
sharedVars == <<text_content, buffer, cursor_x, cursor_y, dirty, locks>>
uiVars == <<ui_pc, ui_key, ui_writes, n_ui, frame>>
histVars == <<published, wrote>>
atlasVars == <<atlas, texture_writes, returned, last_result>>
vars == <<gridVars, ptyVars, sharedVars, uiVars, stdin, histVars, atlasVars>>

(***************************************************************************)
(* Program constants                                                       *)
(***************************************************************************)
FONT_SIZE == 14
LINE_HEIGHT == 20
DEFAULT_COLS == 80
DEFAULT_ROWS == 24

Blank == " "

\* "Nebula Terminal\n$ ": the initial text and the banner printed into the grid
Banner ==
    <<"N", "e", "b", "u", "l", "a", " ", "T", "e", "r", "m", "i", "n", "a",
      "l", "\n", "$", " ">>

\* "\n[Shell exited, restarting...]\n"
ExitNotice ==
    <<"\n", "[", "S", "h", "e", "l", "l", " ", "e", "x", "i", "t", "e", "d",
      ",", " ", "r", "e", "s", "t", "a", "r", "t", "i", "n", "g", ".", ".",
      ".", "]", "\n">>

\* "\n[Failed to create PTY: {}]\n", the error's text written e
DiagOpenpty ==
    <<"\n", "[", "F", "a", "i", "l", "e", "d", " ", "t", "o", " ", "c", "r",
      "e", "a", "t", "e", " ", "P", "T", "Y", ":", " ", "e", "]", "\n">>

\* "\n[Failed to spawn shell: {}]\n"
DiagSpawn ==
    <<"\n", "[", "F", "a", "i", "l", "e", "d", " ", "t", "o", " ", "s", "p",
      "a", "w", "n", " ", "s", "h", "e", "l", "l", ":", " ", "e", "]", "\n">>

\* "\n[Failed to clone reader: {}]\n"
DiagClone ==
    <<"\n", "[", "F", "a", "i", "l", "e", "d", " ", "t", "o", " ", "c", "l",
      "o", "n", "e", " ", "r", "e", "a", "d", "e", "r", ":", " ", "e", "]",
      "\n">>

(***************************************************************************)
(* Bounds of the grid specification                                        *)
(***************************************************************************)
MaxParam == 2
MaxScrollback == 1

(***************************************************************************)
(* Bounds of the session specification                                     *)
(***************************************************************************)
MaxReads == 2
MaxUiEvents == 1

(***************************************************************************)
(* Bounds of the atlas specification                                       *)
(***************************************************************************)
MaxAtlasSize == 3

\* The largest value the parser delivers for a parameter (u16::MAX).
BigParam == 2^16 - 1

\* The grid shapes explored, <<rows, cols>>: a single row with room to shift
\* cells in it, a single column with rows above and below the cursor, a square.
GridShapes == {<<1, 3>>, <<3, 1>>, <<2, 2>>}

Chars == {"a"}

(***************************************************************************)
(* Helpers                                                                 *)
(***************************************************************************)
Min(a, b) == IF a < b THEN a ELSE b
Max(a, b) == IF a > b THEN a ELSE b

BlankRow(cols) == [c \in 1..cols |-> Blank]

(***************************************************************************)
(* TerminalGrid                                                            *)
(***************************************************************************)
new(rows, cols) ==
    [rows |-> rows, cols |-> cols,
     cells |-> [r \in 1..rows |-> BlankRow(cols)],
     cursor_x |-> 0, cursor_y |-> 0,
     scrollback |-> <<>>, scroll_offset |-> 0,
     dirty |-> TRUE]

\* A faulty clear_screen that blanks the cells and leaves the cursor.
clear_screen_keep_cursor(g) ==
    [g EXCEPT !.cells = [r \in 1..g.rows |-> BlankRow(g.cols)], !.dirty = TRUE]

clear_screen(g) ==
    [g EXCEPT !.cells = [r \in 1..g.rows |-> BlankRow(g.cols)],
              !.cursor_x = 0, !.cursor_y = 0, !.dirty = TRUE]

clear_line(g, from) ==
    IF g.cursor_y < g.rows
    THEN [g EXCEPT !.cells[g.cursor_y + 1] =
                       [c \in 1..g.cols |-> IF c - 1 >= from THEN Blank ELSE @[c]],
                   !.dirty = TRUE]
    ELSE g

\* A faulty scroll_up that counts the promoted line as scrolled out of view.
scroll_up_counts_offset(g) ==
    [g EXCEPT !.scrollback = Append(@, g.cells[1]),
              !.cells = [r \in 1..g.rows |->
                            IF r < g.rows THEN g.cells[r + 1] ELSE BlankRow(g.cols)],
              !.scroll_offset = @ + 1,
              !.dirty = TRUE]

\* A faulty scroll_up that puts the promoted line in front of the scrollback.
scroll_up_newest_first(g) ==
    [g EXCEPT !.scrollback = <<g.cells[1]>> \o @,
              !.cells = [r \in 1..g.rows |->
                            IF r < g.rows THEN g.cells[r + 1] ELSE BlankRow(g.cols)],
              !.dirty = TRUE]

scroll_up(g) ==
    [g EXCEPT !.scrollback = Append(@, g.cells[1]),
              !.cells = [r \in 1..g.rows |->
                            IF r < g.rows THEN g.cells[r + 1] ELSE BlankRow(g.cols)],
              !.dirty = TRUE]

scroll_down(g) ==
    IF g.scroll_offset > 0
    THEN IF Len(g.scrollback) > 0
         THEN LET bottom_line == g.scrollback[Len(g.scrollback)]
              IN  [g EXCEPT !.scroll_offset = @ - 1,
                            !.scrollback = SubSeq(@, 1, Len(@) - 1),
                            !.cells = [r \in 1..g.rows |->
                                IF r > 1 THEN g.cells[r - 1]
                                ELSE [c \in 1..g.cols |->
                                        IF c <= Len(bottom_line) THEN bottom_line[c]
                                        ELSE g.cells[1][c]]],
                            !.dirty = TRUE]
         ELSE [g EXCEPT !.scroll_offset = @ - 1]
    ELSE g

newline(g) ==
    LET g1 == IF g.cursor_y = g.rows - 1 THEN scroll_up(g)
              ELSE [g EXCEPT !.cursor_y = @ + 1]
    IN  [g1 EXCEPT !.cursor_x = 0, !.dirty = TRUE]

carriage_return(g) == [g EXCEPT !.cursor_x = 0, !.dirty = TRUE]

backspace(g) ==
    IF g.cursor_x > 0
    THEN [g EXCEPT !.cursor_x = @ - 1,
                   !.cells[g.cursor_y + 1][g.cursor_x] = Blank,
                   !.dirty = TRUE]
    ELSE g

\* A faulty move_cursor that forgets to clamp the column.
move_cursor_unclamped(g, x, y) ==
    [g EXCEPT !.cursor_x = x, !.cursor_y = Min(y, g.rows - 1), !.dirty = TRUE]

move_cursor(g, x, y) ==
    [g EXCEPT !.cursor_x = Min(x, g.cols - 1),
              !.cursor_y = Min(y, g.rows - 1),
              !.dirty = TRUE]

move_cursor_relative(g, dx, dy) ==
    LET new_x == Max(g.cursor_x + dx, 0)
        new_y == Max(g.cursor_y + dy, 0)
    IN  move_cursor(g, new_x, new_y)

\* A faulty print_char that never wraps at the column boundary.
print_char_nowrap(g, c) ==
    IF g.cursor_y < g.rows /\ g.cursor_x < g.cols
    THEN [g EXCEPT !.cells[g.cursor_y + 1][g.cursor_x + 1] = c,
                   !.cursor_x = Min(@ + 1, g.cols - 1),
                   !.dirty = TRUE]
    ELSE g

print_char(g, c) ==
    LET g1 == IF g.cursor_y < g.rows /\ g.cursor_x < g.cols
              THEN [g EXCEPT !.cells[g.cursor_y + 1][g.cursor_x + 1] = c,
                             !.cursor_x = @ + 1,
                             !.dirty = TRUE]
              ELSE g
    IN  IF g1.cursor_x >= g1.cols THEN newline(carriage_return(g1)) ELSE g1

\* The grid after the characters s[lo..hi] have been printed, in order: the loop
\* of print_str. The range is split in halves and the first half is evaluated to
\* a value before the second half starts, which keeps the evaluation shallow.
RECURSIVE print_range(_, _, _, _)
print_range(g, s, lo, hi) ==
    IF lo > hi THEN g
    ELSE IF lo = hi THEN print_char(g, s[lo])
    ELSE LET mid == (lo + hi) \div 2
         IN  CHOOSE r \in {print_range(v, s, mid + 1, hi) :
                              v \in {print_range(g, s, lo, mid)}} : TRUE

print_str(g, s) == print_range(g, s, 1, Len(s))

\* The first n lines of a sequence of lines, one after the other.
RECURSIVE ConcatLines(_, _)
ConcatLines(lines, n) ==
    IF n = 0 THEN <<>> ELSE ConcatLines(lines, n - 1) \o lines[n]

to_string(g) ==
    LET shown == Len(g.scrollback) - g.scroll_offset
        sb == [i \in 1..shown |-> g.scrollback[g.scroll_offset + i] \o <<"\n">>]
        screen == [r \in 1..g.rows |->
                      IF r < g.rows THEN g.cells[r] \o <<"\n">> ELSE g.cells[r]]
    IN  ConcatLines(sb, shown) \o ConcatLines(screen, g.rows)

(***************************************************************************)
(* TerminalPerformer: the vte::Perform callbacks                           *)
(***************************************************************************)
\* An interpreter event, as the byte-stream parser hands it to the performer.
Event(kind, c, byte, params, action) ==
    [kind |-> kind, c |-> c, byte |-> byte, params |-> params, action |-> action]

PrintEv(c) == Event("print", c, 0, <<>>, "")
ExecuteEv(b) == Event("execute", "", b, <<>>, "")
CsiEv(params, action) == Event("csi", "", 0, params, action)
OtherEv(kind) == Event(kind, "", 0, <<>>, "")

\* The parser pushes the parameter in progress before every dispatch, so a
\* sequence written without parameters is delivered with the single parameter 0.
VteParams(text) == IF text = <<>> THEN <<0>> ELSE text

get_param(params, index) ==
    IF index < Len(params) THEN params[index + 1] ELSE 1

Digit(d) == CASE d = 0 -> "0" [] d = 1 -> "1" [] d = 2 -> "2" [] d = 3 -> "3"
              [] d = 4 -> "4" [] d = 5 -> "5" [] d = 6 -> "6" [] d = 7 -> "7"
              [] d = 8 -> "8" [] OTHER -> "9"

RECURSIVE Decimal(_)
Decimal(n) == IF n < 10 THEN <<Digit(n)>> ELSE Decimal(n \div 10) \o <<Digit(n % 10)>>

\* A faulty reply that reports the column before the row.
DsrResponse_swapped(g) ==
    <<"ESC", "[">> \o Decimal(g.cursor_x + 1) \o <<";">> \o Decimal(g.cursor_y + 1)
        \o <<"R">>

\* format!("\x1B[{};{}R", cursor_y + 1, cursor_x + 1)
DsrResponse(g) ==
    <<"ESC", "[">> \o Decimal(g.cursor_y + 1) \o <<";">> \o Decimal(g.cursor_x + 1)
        \o <<"R">>

RECURSIVE scroll_up_n(_, _)
scroll_up_n(g, n) == IF n = 0 THEN g ELSE scroll_up_n(scroll_up(g), n - 1)

RECURSIVE scroll_down_n(_, _)
scroll_down_n(g, n) == IF n = 0 THEN g ELSE scroll_down_n(scroll_down(g), n - 1)

BlankRowsFrom(g, first, last) ==
    [g EXCEPT !.cells = [r \in 1..g.rows |->
                            IF r - 1 >= first /\ r - 1 < last THEN BlankRow(g.cols)
                            ELSE @[r]]]

\* A faulty 'J' that treats every unsupported mode as "clear the screen".
erase_display_lenient(g, mode) ==
    CASE mode = 0 -> BlankRowsFrom(clear_line(g, g.cursor_x), g.cursor_y + 1, g.rows)
      [] mode = 1 -> clear_line(BlankRowsFrom(g, 0, g.cursor_y), 0)
      [] OTHER -> clear_screen(g)

\* A faulty 'J' that erases from the cursor to the end whatever the mode.
erase_display_to_end(g, mode) ==
    BlankRowsFrom(clear_line(g, g.cursor_x), g.cursor_y + 1, g.rows)

erase_display(g, mode) ==
    CASE mode = 0 -> BlankRowsFrom(clear_line(g, g.cursor_x), g.cursor_y + 1, g.rows)
      [] mode = 1 -> clear_line(BlankRowsFrom(g, 0, g.cursor_y), 0)
      [] mode = 2 -> clear_screen(g)
      [] OTHER -> g

erase_line(g, mode) ==
    CASE mode = 0 -> clear_line(g, g.cursor_x)
      [] mode = 1 -> clear_line(g, 0)
      [] mode = 2 -> [g EXCEPT !.cells[g.cursor_y + 1] = BlankRow(g.cols)]
      [] OTHER -> g

\* 'P' with count <= cols: the two loops of the arm, in order.
delete_chars(g, count) ==
    LET row == g.cursor_y + 1
        start == g.cursor_x
        shifted == [c \in 1..g.cols |->
                       IF c - 1 >= start /\ c - 1 < g.cols - count
                       THEN g.cells[row][c + count] ELSE g.cells[row][c]]
    IN  [g EXCEPT !.cells[row] =
                      [c \in 1..g.cols |->
                          IF c - 1 >= g.cols - count THEN Blank ELSE shifted[c]]]

\* The result of one callback: the grid, the bytes written to the writer handle,
\* and whether the usize subtraction cols - count of 'P' underflowed.
Result(g, w, fault) == [grid |-> g, written |-> w, fault |-> fault]

\* A faulty 'H' that takes the first parameter as the column.
cursor_position_swapped(g, params) ==
    LET row == Max(get_param(params, 1) - 1, 0)
        col == Max(get_param(params, 0) - 1, 0)
    IN  move_cursor(g, col, row)

\* 'H' | 'f': get_param(0).saturating_sub(1), get_param(1).saturating_sub(1)
cursor_position(g, params) ==
    LET row == Max(get_param(params, 0) - 1, 0)
        col == Max(get_param(params, 1) - 1, 0)
    IN  move_cursor(g, col, row)

csi_dispatch(g, params, action) ==
    CASE action = "A" -> Result(move_cursor_relative(g, 0, -get_param(params, 0)), <<>>, FALSE)
      [] action = "B" -> Result(move_cursor_relative(g, 0, get_param(params, 0)), <<>>, FALSE)
      [] action = "C" -> Result(move_cursor_relative(g, get_param(params, 0), 0), <<>>, FALSE)
      [] action = "D" -> Result(move_cursor_relative(g, -get_param(params, 0), 0), <<>>, FALSE)
      [] action \in {"H", "f"} -> Result(cursor_position(g, params), <<>>, FALSE)
      [] action = "J" -> Result(erase_display(g, get_param(params, 0)), <<>>, FALSE)
      [] action = "K" -> Result(erase_line(g, get_param(params, 0)), <<>>, FALSE)
      [] action = "S" -> Result(scroll_up_n(g, get_param(params, 0)), <<>>, FALSE)
      [] action = "T" -> Result(scroll_down_n(g, get_param(params, 0)), <<>>, FALSE)
      [] action = "P" ->
            IF get_param(params, 0) > g.cols THEN Result(g, <<>>, TRUE)
            ELSE Result(delete_chars(g, get_param(params, 0)), <<>>, FALSE)
      [] action = "n" ->
            IF get_param(params, 0) = 6 THEN Result(g, DsrResponse(g), FALSE)
            ELSE Result(g, <<>>, FALSE)
      [] OTHER -> Result(g, <<>>, FALSE)

\* A faulty execute that ignores the line-feed byte.
execute_lf_ignored(g, byte) ==
    CASE byte = 8 -> backspace(g)
      [] byte = 9 -> print_str(g, <<" ", " ", " ", " ">>)
      [] byte = 13 -> carriage_return(g)
      [] byte = 12 -> clear_screen(g)
      [] OTHER -> g

execute(g, byte) ==
    CASE byte = 8 -> backspace(g)
      [] byte = 9 -> print_str(g, <<" ", " ", " ", " ">>)
      [] byte = 10 -> newline(g)
      [] byte = 13 -> carriage_return(g)
      [] byte = 12 -> clear_screen(g)
      [] OTHER -> g

print(g, c) == print_char(g, c)

\* One event through the performer.
Perform(g, e) ==
    CASE e.kind = "print" -> Result(print(g, e.c), <<>>, FALSE)
      [] e.kind = "execute" -> Result(execute(g, e.byte), <<>>, FALSE)
      [] e.kind = "csi" -> csi_dispatch(g, e.params, e.action)
      [] OTHER -> Result(g, <<>>, FALSE)

(***************************************************************************)
(* GlyphAtlas (texture.rs): the shelf-packed glyph cache of the renderer    *)
(***************************************************************************)
\* GlyphKey values: three glyphs of one font at the configured size.
GlyphIds == {1, 2, 3}
GlyphKeys == [font_id : {0}, glyph_id : GlyphIds, font_size : {FONT_SIZE}]

\* image.placement.width and .height of the rasterised images explored: empty,
\* one or two pixels, and one pixel more than the side of the atlas.
ImageSides == {0, 1, 2, MaxAtlasSize + 1}
Images == [width : ImageSides, height : ImageSides]

\* GlyphAtlas::new: an empty cache and the packing cursor at the origin.
GlyphAtlasNew(atlas_size) ==
    [cache |-> [k \in {} |-> <<>>], current_x |-> 0, current_y |-> 0,
     row_height |-> 0, atlas_size |-> atlas_size]

\* Result<(u32, u32, u32, u32)>
Ok(rect) == [ok |-> TRUE, rect |-> rect, err |-> ""]
Err(msg) == [ok |-> FALSE, rect |-> <<>>, err |-> msg]

\* What one add_glyph call leaves behind: the atlas, the value returned and the
\* texture writes issued.
Added(a, result, writes) == [atlas |-> a, result |-> result, writes |-> writes]

\* A faulty lookup that never finds the key.
cache_get_miss(a, key) == <<>>

\* self.cache.get(&key): the Option as a sequence of at most one rectangle
cache_get(a, key) == IF key \in DOMAIN a.cache THEN <<a.cache[key]>> ELSE <<>>

\* A faulty wrap that goes back to x = 0 without moving down.
wrap_row_in_place(a, width) ==
    IF a.current_x + width > a.atlas_size
    THEN [a EXCEPT !.current_x = 0, !.row_height = 0]
    ELSE a

\* A faulty wrap that stays in the current row.
wrap_row_never(a, width) == a

\* if self.current_x + width > self.atlas_size { start the next row }
wrap_row(a, width) ==
    IF a.current_x + width > a.atlas_size
    THEN [a EXCEPT !.current_x = 0,
                   !.current_y = a.current_y + a.row_height,
                   !.row_height = 0]
    ELSE a

\* A faulty row-height update that keeps the latest height, not the largest.
grow_row_latest(a, height) == [a EXCEPT !.row_height = height]

\* if height > self.row_height { self.row_height = height }
grow_row(a, height) ==
    IF height > a.row_height THEN [a EXCEPT !.row_height = height] ELSE a

\* self.cache.insert(key, rect)
cache_insert(a, key, rect) ==
    [a EXCEPT !.cache = [k \in DOMAIN a.cache \cup {key} |->
                            IF k = key THEN rect ELSE a.cache[k]]]

add_glyph(a, key, image) ==
    LET hit == cache_get(a, key)
    IN  IF hit # <<>> THEN Added(a, Ok(hit[1]), <<>>)
        ELSE IF image.width = 0 \/ image.height = 0
        THEN Added(a, Err("Zero-sized glyph"), <<>>)
        ELSE LET w == wrap_row(a, image.width)
             IN  IF w.current_y + image.height > w.atlas_size
                 THEN Added(w, Err("Glyph atlas out of space"), <<>>)
                 ELSE LET g == grow_row(w, image.height)
                          rect == <<g.current_x, g.current_y,
                                    image.width, image.height>>
                      IN  Added([cache_insert(g, key, rect) EXCEPT
                                    !.current_x = g.current_x + image.width],
                                Ok(rect), <<rect>>)

\* app.rs: GlyphAtlas::new(&device, ATLAS_SIZE), before any frame is drawn
AtlasInit ==
    /\ atlas = GlyphAtlasNew(MaxAtlasSize)
    /\ texture_writes = <<>>
    /\ returned = [k \in {} |-> <<>>]
    /\ last_result = Err("")

(***************************************************************************)
(* Terminal::new and spawn_pty: the state both contexts start from         *)
(***************************************************************************)
LockNames == {"text_content", "buffer", "font_system", "cursor_x", "cursor_y",
              "dirty", "input_writer"}

Snapshot(text, x, y) == [text |-> text, x |-> x, y |-> y]

SessionInit ==
    /\ pty_pc = "read"
    /\ last_read = "none"
    /\ n_reads = 0
    /\ exit_reason = "none"
    /\ handles = [child |-> 1, master |-> 1, reader |-> 1, writer |-> 1]
    /\ text_content = Banner
    /\ buffer = Banner
    /\ cursor_x = 2 * FONT_SIZE
    /\ cursor_y = 1 * LINE_HEIGHT
    /\ dirty = TRUE
    /\ locks = [l \in LockNames |-> "free"]
    /\ ui_pc = "idle"
    /\ ui_key = "none"
    /\ ui_writes = <<>>
    /\ n_ui = 0
    /\ frame = [state |-> "none", text |-> <<>>, x |-> 0, y |-> 0]
    /\ stdin = <<>>
    /\ published = {Snapshot(Banner, 2 * FONT_SIZE, 1 * LINE_HEIGHT)}
    /\ wrote = [cursor_x |-> "init", cursor_y |-> "init", dirty |-> "init"]

(***************************************************************************)
(* The interpreter on its own: any event sequence applied to a new grid    *)
(***************************************************************************)
ControlBytes == {7, 8, 9, 10, 12, 13}
CsiActions == {"A", "B", "C", "D", "H", "f", "J", "K", "S", "T", "P", "n", "m"}
ParamValues == 0..MaxParam \cup {BigParam}
\* The parameters as written in the sequence: none, one, or (for H and f) two.
\* S and T loop once per unit of their parameter and take the small values only.
CsiParamTexts(action) ==
    CASE action \in {"H", "f"} ->
            {<<>>} \cup {<<p>> : p \in ParamValues}
                   \cup {<<p, q>> : p \in ParamValues, q \in ParamValues}
      [] action \in {"S", "T"} -> {<<>>} \cup {<<p>> : p \in 0..MaxParam}
      [] action = "n" -> {<<>>, <<5>>, <<6>>}
      [] OTHER -> {<<>>} \cup {<<p>> : p \in ParamValues}
IgnoredKinds == {"hook", "put", "unhook", "osc", "esc"}

GridInit ==
    /\ \E shape \in GridShapes : grid = new(shape[1], shape[2])
    /\ written = <<>>
    /\ status = "running"
    /\ SessionInit
    /\ AtlasInit

\* parser.advance delivering one event to the performer
Step(e) ==
    /\ status = "running"
    /\ LET r == Perform(grid, e)
       IN  /\ Len(r.grid.scrollback) <= MaxScrollback
           /\ grid' = r.grid
           /\ written' = r.written
           /\ status' \in (IF r.fault THEN {"panicked", "hung"} ELSE {"running"})
    /\ UNCHANGED <<atlasVars, ptyVars, sharedVars, uiVars, stdin, histVars>>

OnPrint == \E c \in Chars : Step(PrintEv(c))

OnExecute == \E b \in ControlBytes : Step(ExecuteEv(b))

OnCsiDispatch ==
    \E action \in CsiActions : \E text \in CsiParamTexts(action) :
        Step(CsiEv(VteParams(text), action))

OnIgnored == \E k \in IgnoredKinds : Step(OtherEv(k))

\* performer.grid.dirty = false, once the batch has been published
ClearDirty ==
    /\ status = "running"
    /\ grid.dirty
    /\ grid' = [grid EXCEPT !.dirty = FALSE]
    /\ written' = <<>>
    /\ UNCHANGED <<atlasVars, status, ptyVars, sharedVars, uiVars, stdin, histVars>>

GridNext == OnPrint \/ OnExecute \/ OnCsiDispatch \/ OnIgnored \/ ClearDirty

SpecGrid == GridInit /\ [][GridNext]_vars

(***************************************************************************)
(* The PTY read-loop thread (spawn_pty)                                    *)
(***************************************************************************)
\* What the shell may send in one read: a character followed by ESC [ 1 S, which
\* scrolls the line just written into the scrollback, or the request for a
\* Device Status Report, ESC [ 6 n.
Inputs == { <<PrintEv("a"), CsiEv(<<1>>, "S")>>, <<CsiEv(<<6>>, "n")>> }

\* parser.advance over the first n events of the bytes read
RECURSIVE advance(_, _, _)
advance(g, events, n) ==
    IF n = 0 THEN Result(g, <<>>, FALSE)
    ELSE CHOOSE res \in
           { IF prev.fault THEN prev
             ELSE CHOOSE next \in
                    { Result(r.grid, prev.written \o r.written, r.fault) :
                        r \in {Perform(prev.grid, events[n])} } : TRUE :
               prev \in {advance(g, events, n - 1)} } : TRUE

PtyAt(pc) == pty_pc = pc /\ status = "running"

\* A faulty reply that writes without taking the writer lock.
DsrWrite_nolock(r) ==
    stdin' = stdin \o [i \in 1..Len(r.written) |->
                          [src |-> "dsr", id |-> n_reads, b |-> r.written[i]]]

\* The 'n' arm answering a Device Status Report: lock the writer, write, flush.
DsrWrite(r) ==
    /\ locks.input_writer = "free"
    /\ stdin' = stdin \o [i \in 1..Len(r.written) |->
                             [src |-> "dsr", id |-> n_reads, b |-> r.written[i]]]

\* reader.read returns n > 0: parser.advance over the bytes read, then the dirty
\* test that decides whether the grid is published
ReadData ==
    /\ PtyAt("read")
    /\ n_reads < MaxReads
    /\ \E events \in Inputs :
         LET r == advance(grid, events, Len(events))
         IN  /\ grid' = r.grid
             /\ written' = r.written
             /\ status' = IF r.fault THEN "panicked" ELSE "running"
             /\ IF r.written # <<>> THEN DsrWrite(r) ELSE stdin' = stdin
             /\ pty_pc' = IF r.grid.dirty THEN "pub_text" ELSE "read"
    /\ last_read' = "data"
    /\ n_reads' = n_reads + 1
    /\ UNCHANGED <<atlasVars, exit_reason, handles, sharedVars, uiVars, histVars>>

\* *text_lock = new_text.clone()
PubText ==
    /\ PtyAt("pub_text")
    /\ locks.text_content = "free"
    /\ text_content' = to_string(grid)
    /\ published' = published \cup
                      {Snapshot(to_string(grid), grid.cursor_x * FONT_SIZE,
                                grid.cursor_y * LINE_HEIGHT)}
    /\ pty_pc' = "pub_buffer"
    /\ UNCHANGED <<atlasVars, gridVars, last_read, n_reads, exit_reason, handles,
                   buffer, cursor_x, cursor_y, dirty, locks, uiVars, stdin, wrote>>

\* buffer_clone.lock(), font_system_clone.lock(), set_text, shape_until_scroll;
\* both guards are dropped at the end of the block. Every holder of font_system
\* takes buffer first, so the block runs as one step once buffer is free.
PubSetText ==
    /\ PtyAt("pub_buffer")
    /\ locks.buffer = "free"
    /\ locks.font_system = "free"
    /\ buffer' = to_string(grid)
    /\ pty_pc' = "pub_cx"
    /\ UNCHANGED <<atlasVars, gridVars, last_read, n_reads, exit_reason, handles,
                   text_content, cursor_x, cursor_y, dirty, locks, uiVars, stdin,
                   histVars>>

\* *cursor_x_clone.lock().unwrap() = cursor_x
PubCursorX ==
    /\ PtyAt("pub_cx")
    /\ locks.cursor_x = "free"
    /\ cursor_x' = grid.cursor_x * FONT_SIZE
    /\ wrote' = [wrote EXCEPT !.cursor_x = "pty"]
    /\ pty_pc' = "pub_cy"
    /\ UNCHANGED <<atlasVars, gridVars, last_read, n_reads, exit_reason, handles,
                   text_content, buffer, cursor_y, dirty, locks, uiVars, stdin,
                   published>>

\* *cursor_y_clone.lock().unwrap() = cursor_y
PubCursorY ==
    /\ PtyAt("pub_cy")
    /\ locks.cursor_y = "free"
    /\ cursor_y' = grid.cursor_y * LINE_HEIGHT
    /\ wrote' = [wrote EXCEPT !.cursor_y = "pty"]
    /\ pty_pc' = "pub_dirty"
    /\ UNCHANGED <<atlasVars, gridVars, last_read, n_reads, exit_reason, handles,
                   text_content, buffer, cursor_x, dirty, locks, uiVars, stdin,
                   published>>

\* A faulty end of the publish that leaves the grid's own dirty flag set.
PubDirty_keeps_flag ==
    /\ PtyAt("pub_dirty")
    /\ locks.dirty = "free"
    /\ dirty' = TRUE
    /\ wrote' = [wrote EXCEPT !.dirty = "pty"]
    /\ pty_pc' = "read"
    /\ UNCHANGED <<atlasVars, gridVars, last_read, n_reads, exit_reason, handles,
                   text_content, buffer, cursor_x, cursor_y, locks, uiVars, stdin,
                   published>>

\* *dirty_clone.lock().unwrap() = true; after a batch, performer.grid.dirty = false
PubDirty ==
    /\ PtyAt("pub_dirty")
    /\ locks.dirty = "free"
    /\ dirty' = TRUE
    /\ wrote' = [wrote EXCEPT !.dirty = "pty"]
    /\ grid' = IF last_read = "data" THEN [grid EXCEPT !.dirty = FALSE] ELSE grid
    /\ pty_pc' = "read"
    /\ UNCHANGED <<atlasVars, written, status, last_read, n_reads, exit_reason, handles,
                   text_content, buffer, cursor_x, cursor_y, locks, uiVars, stdin,
                   published>>

\* A faulty reset that leaves the screen and the cursor as they were.
reset_keeping_screen(g) ==
    [g EXCEPT !.scrollback = <<>>, !.scroll_offset = 0, !.dirty = TRUE]

\* "Reset terminal state", after the handles have been replaced
reset_terminal(g) ==
    [clear_screen(g) EXCEPT !.cursor_x = 0, !.cursor_y = 0, !.scrollback = <<>>,
                            !.scroll_offset = 0, !.dirty = TRUE]

RespawnOutcomes == {"ok", "openpty_failed", "spawn_failed", "clone_failed"}

\* A faulty Ok(0) arm that leaves the loop whatever the outcome, with no
\* diagnostic written.
Respawn_giveup(g, h, outcome) ==
    [grid |-> print_str(g, ExitNotice), handles |-> h, pc |-> "exited"]

\* The Ok(0) arm up to its break or to the point where the new prompt is published.
Respawn(g, h, outcome) ==
    LET noticed == print_str(g, ExitNotice)
        session == h.master + 1
    IN  CASE outcome = "openpty_failed" ->
                [grid |-> print_str(noticed, DiagOpenpty), handles |-> h, pc |-> "exited"]
          [] outcome = "spawn_failed" ->
                [grid |-> print_str(noticed, DiagSpawn), handles |-> h, pc |-> "exited"]
          [] outcome = "clone_failed" ->
                [grid |-> print_str(noticed, DiagClone),
                 handles |-> [h EXCEPT !.child = session, !.master = session],
                 pc |-> "exited"]
          [] OTHER ->
                [grid |-> print_str(reset_terminal(noticed), Banner),
                 handles |-> [h EXCEPT !.child = session, !.master = session,
                                       !.reader = session],
                 pc |-> "pub_text"]

\* reader.read returns 0
ReadEof ==
    /\ PtyAt("read")
    /\ n_reads < MaxReads
    /\ \E outcome \in RespawnOutcomes :
         LET r == Respawn(grid, handles, outcome)
         IN  /\ grid' = r.grid
             /\ handles' = r.handles
             /\ pty_pc' = r.pc
             /\ exit_reason' = IF r.pc = "exited" THEN outcome ELSE exit_reason
    /\ last_read' = "eof"
    /\ n_reads' = n_reads + 1
    /\ UNCHANGED <<atlasVars, written, status, sharedVars, uiVars, stdin, histVars>>

\* A faulty Err arm that respawns as the Ok(0) arm does.
ReadErr_respawn ==
    /\ PtyAt("read")
    /\ n_reads < MaxReads
    /\ grid' = print_str(reset_terminal(grid), Banner)
    /\ handles' = [handles EXCEPT !.child = @ + 1, !.master = @ + 1, !.reader = @ + 1]
    /\ pty_pc' = "pub_text"
    /\ last_read' = "error"
    /\ n_reads' = n_reads + 1
    /\ UNCHANGED <<atlasVars, written, status, exit_reason, sharedVars, uiVars, stdin,
                   histVars>>

\* reader.read returns Err(e)
ReadErr ==
    /\ PtyAt("read")
    /\ n_reads < MaxReads
    /\ pty_pc' = "exited"
    /\ exit_reason' = "read_error"
    /\ last_read' = "error"
    /\ n_reads' = n_reads + 1
    /\ UNCHANGED <<atlasVars, gridVars, handles, sharedVars, uiVars, stdin, histVars>>

PtyNext ==
    \/ ReadData \/ ReadEof \/ ReadErr
    \/ PubText \/ PubSetText \/ PubCursorX \/ PubCursorY \/ PubDirty

(***************************************************************************)
(* The render/input context: window_event, handle_input, render_frame      *)
(***************************************************************************)
\* The arms of handle_input a pressed key can take: the text arm (to_text() gives
\* the key's text), the Enter arm and the ArrowUp arm.
Keys == {"char", "enter", "up"}

\* The write_all calls handle_input makes for a key, in order.
KeyWrites(k) ==
    CASE k = "char" -> << <<"a">> >>
      [] k = "enter" -> << <<"CR">>, <<"LF">> >>
      [] OTHER -> << <<"ESC", "[", "A">> >>

UiAt(pc) == ui_pc = pc

\* WindowEvent::KeyboardInput: self.input_writer.lock()
KeyLock ==
    /\ UiAt("idle")
    /\ n_ui < MaxUiEvents
    /\ locks.input_writer = "free"
    /\ locks' = [locks EXCEPT !.input_writer = "ui"]
    /\ \E k \in Keys : ui_key' = k /\ ui_writes' = KeyWrites(k)
    /\ n_ui' = n_ui + 1
    /\ ui_pc' = "key_write"
    /\ UNCHANGED <<atlasVars, gridVars, ptyVars, text_content, buffer, cursor_x, cursor_y, dirty,
                   frame, stdin, histVars>>

\* writer.write_all(..) of handle_input
KeyWrite ==
    /\ UiAt("key_write")
    /\ LET bytes == Head(ui_writes)
       IN  stdin' = stdin \o [i \in 1..Len(bytes) |->
                                 [src |-> "key", id |-> n_ui, b |-> bytes[i]]]
    /\ ui_writes' = Tail(ui_writes)
    /\ ui_pc' = IF Tail(ui_writes) # <<>> THEN "key_write"
                ELSE IF ui_key = "up" THEN "key_cy" ELSE "key_cx"
    /\ UNCHANGED <<atlasVars, gridVars, ptyVars, sharedVars, ui_key, n_ui, frame, histVars>>

\* state.cursor_x.lock().unwrap(), held to the end of the arm
KeyCursorX ==
    /\ UiAt("key_cx")
    /\ locks.cursor_x = "free"
    /\ locks' = [locks EXCEPT !.cursor_x = "ui"]
    /\ IF ui_key = "char"
       THEN /\ cursor_x' = cursor_x + 8
            /\ wrote' = [wrote EXCEPT !.cursor_x = "ui"]
            /\ ui_pc' = "key_dirty"
       ELSE /\ UNCHANGED <<cursor_x, wrote>>
            /\ ui_pc' = "key_cy"
    /\ UNCHANGED <<atlasVars, gridVars, ptyVars, text_content, buffer, cursor_y, dirty, ui_key,
                   ui_writes, n_ui, frame, stdin, published>>

\* state.cursor_y.lock().unwrap(), then the assignments through the guards held
KeyCursorY ==
    /\ UiAt("key_cy")
    /\ locks.cursor_y = "free"
    /\ locks' = [locks EXCEPT !.cursor_y = "ui"]
    /\ IF ui_key = "enter"
       THEN /\ cursor_x' = 0
            /\ cursor_y' = cursor_y + 20
            /\ wrote' = [wrote EXCEPT !.cursor_x = "ui", !.cursor_y = "ui"]
       ELSE /\ cursor_y' = Max(cursor_y - 20, 0)
            /\ wrote' = [wrote EXCEPT !.cursor_y = "ui"]
            /\ UNCHANGED cursor_x
    /\ ui_pc' = "key_dirty"
    /\ UNCHANGED <<atlasVars, gridVars, ptyVars, text_content, buffer, dirty, ui_key, ui_writes,
                   n_ui, frame, stdin, published>>

\* *state.shared_dirty.lock().unwrap() = true; the arm ends and drops its guards,
\* writer.flush(), handle_input returns and the writer guard is dropped
KeyDirty ==
    /\ UiAt("key_dirty")
    /\ locks.dirty = "free"
    /\ dirty' = TRUE
    /\ wrote' = [wrote EXCEPT !.dirty = "ui"]
    /\ locks' = [locks EXCEPT !.cursor_x = "free", !.cursor_y = "free",
                              !.input_writer = "free"]
    /\ ui_pc' = "idle"
    /\ UNCHANGED <<atlasVars, gridVars, ptyVars, text_content, buffer, cursor_x, cursor_y, ui_key,
                   ui_writes, n_ui, frame, stdin, published>>

\* WindowEvent::RedrawRequested, the surface has no texture: render_frame returns
RenderNoSurface ==
    /\ UiAt("idle")
    /\ n_ui < MaxUiEvents
    /\ n_ui' = n_ui + 1
    /\ UNCHANGED <<atlasVars, gridVars, ptyVars, sharedVars, ui_pc, ui_key, ui_writes, frame,
                   stdin, histVars>>

\* render_frame: state.buffer.lock(), state.font_system.lock(), shape_until_scroll
\* and the walk over layout_runs; both guards stay held while the quads are built
\* (what the walk's add_glyph calls do to the atlas, which no other context
\* reads, is followed in SpecAtlas)
RenderShape ==
    /\ UiAt("idle")
    /\ n_ui < MaxUiEvents
    /\ locks.buffer = "free"
    /\ locks.font_system = "free"
    /\ locks' = [locks EXCEPT !.buffer = "ui", !.font_system = "ui"]
    /\ n_ui' = n_ui + 1
    /\ frame' = [state |-> "drawing", text |-> buffer, x |-> 0, y |-> 0]
    /\ ui_pc' = "render_cx"
    /\ UNCHANGED <<atlasVars, gridVars, ptyVars, text_content, buffer, cursor_x, cursor_y, dirty,
                   ui_key, ui_writes, stdin, histVars>>

\* cursor_x = *state.cursor_x.lock().unwrap()
RenderCursorX ==
    /\ UiAt("render_cx")
    /\ locks.cursor_x = "free"
    /\ frame' = [frame EXCEPT !.x = cursor_x]
    /\ ui_pc' = "render_cy"
    /\ UNCHANGED <<atlasVars, gridVars, ptyVars, sharedVars, ui_key, ui_writes, n_ui, stdin,
                   histVars>>

\* cursor_y = *state.cursor_y.lock().unwrap(); the quads are built, the guards dropped
RenderCursorY ==
    /\ UiAt("render_cy")
    /\ locks.cursor_y = "free"
    /\ frame' = [frame EXCEPT !.y = cursor_y, !.state = "drawn"]
    /\ locks' = [locks EXCEPT !.font_system = "free", !.buffer = "free"]
    /\ ui_pc' = "idle"
    /\ UNCHANGED <<atlasVars, gridVars, ptyVars, text_content, buffer, cursor_x, cursor_y, dirty,
                   ui_key, ui_writes, n_ui, stdin, histVars>>

UiNext ==
    \/ KeyLock \/ KeyWrite \/ KeyCursorX \/ KeyCursorY \/ KeyDirty
    \/ RenderNoSurface \/ RenderShape \/ RenderCursorX
    \/ RenderCursorY

(***************************************************************************)
(* The running terminal                                                    *)
(***************************************************************************)
Init ==
    /\ grid = print_str(new(DEFAULT_ROWS, DEFAULT_COLS), Banner)
    /\ written = <<>>
    /\ status = "running"
    /\ SessionInit
    /\ AtlasInit

Next == PtyNext \/ UiNext

Spec == Init /\ [][Next]_vars

(***************************************************************************)
(* The scrolling events on their own, with one more line of scrollback     *)
(* than SpecGrid keeps, so that promoted lines can be told apart by age.   *)
(***************************************************************************)
\* The number of scrollback lines followed.
ScrollDepth == MaxScrollback + 1

\* parser.advance delivering one event that can scroll
ScrollStep(e) ==
    /\ status = "running"
    /\ \E r \in {Perform(grid, e)} :
           /\ Len(r.grid.scrollback) <= ScrollDepth
           /\ grid' = r.grid
           /\ written' = r.written
    /\ UNCHANGED <<atlasVars, status, ptyVars, sharedVars, uiVars, stdin, histVars>>

\* print(c): the wrap at the last column of the last row scrolls
PrintScrolls == \E c \in Chars : ScrollStep(PrintEv(c))

\* execute(b'\n'): a line feed on the last row scrolls
LineFeedScrolls == ScrollStep(ExecuteEv(10))

\* csi_dispatch 'S' and 'T': scroll_up and scroll_down, once per unit
CsiScrolls ==
    \E action \in {"S", "T"} : \E text \in CsiParamTexts(action) :
        ScrollStep(CsiEv(VteParams(text), action))

ScrollNext == PrintScrolls \/ LineFeedScrolls \/ CsiScrolls

SpecScroll == GridInit /\ [][ScrollNext]_vars

(***************************************************************************)
(* The two contexts with every mutex guard followed from lock() to drop.   *)
(* In Spec a critical section of the PTY thread is one step; here the PTY  *)
(* thread is seen holding each guard, a window event is seen waiting for   *)
(* the first mutex it needs, and the PTY thread may panic where a call it  *)
(* makes with a guard held can panic, which poisons the mutexes it holds.  *)
(***************************************************************************)
\* A faulty drop that leaves the mutex locked.
Released_never(ls, l) == ls

\* The guard of mutex l goes out of scope.
Released(ls, l) == [ls EXCEPT ![l] = "free"]

\* The PTY thread unwinds: every mutex it holds is left poisoned.
Poisoned(ls) == [l \in LockNames |-> IF ls[l] = "pty" THEN "poisoned" ELSE ls[l]]

\* x.lock() by the PTY thread at point from of its loop
PtyTakes(l, from, to) ==
    /\ PtyAt(from)
    /\ locks[l] = "free"
    /\ locks' = [locks EXCEPT ![l] = "pty"]
    /\ pty_pc' = to
    /\ UNCHANGED <<atlasVars, gridVars, last_read, n_reads, exit_reason, handles,
                   text_content, buffer, cursor_x, cursor_y, dirty, uiVars, stdin,
                   histVars>>

\* Where the loop goes once the batch has been interpreted.
AfterBatch(g) == IF g.dirty THEN "pub_text" ELSE "read"

\* What the shell sends in one read when every guard is followed: a character,
\* ESC [ 1 S and the request for a Device Status Report, so that one batch makes
\* the thread reply under the writer lock and then publish.
LockInputs == { <<PrintEv("a"), CsiEv(<<1>>, "S"), CsiEv(<<6>>, "n")>> }

\* reader.read returns n > 0 and parser.advance runs over the bytes; a request
\* for a status report stops at self.writer.lock()
ReadBatch ==
    /\ PtyAt("read")
    /\ n_reads < MaxReads
    /\ \E events \in LockInputs :
         \E r \in {advance(grid, events, Len(events))} :
             /\ grid' = r.grid
             /\ written' = r.written
             /\ status' = IF r.fault THEN "panicked" ELSE "running"
             /\ pty_pc' = IF r.written # <<>> THEN "dsr_lock" ELSE AfterBatch(r.grid)
    /\ last_read' = "data"
    /\ n_reads' = n_reads + 1
    /\ UNCHANGED <<atlasVars, exit_reason, handles, sharedVars, uiVars, stdin, histVars>>

\* if let Ok(mut w) = self.writer.lock()
ReplyLock ==
    /\ pty_pc = "dsr_lock"
    /\ PtyTakes("input_writer", "dsr_lock", "dsr_write")

\* The bytes of the reply as they reach the child's stdin.
ReplyBytes ==
    [i \in 1..Len(written) |-> [src |-> "dsr", id |-> n_reads - 1, b |-> written[i]]]

\* w.write_all(response), w.flush(), println!, and the guard is dropped
Reply ==
    /\ PtyAt("dsr_write")
    /\ stdin' = stdin \o ReplyBytes
    /\ locks' = Released(locks, "input_writer")
    /\ pty_pc' = AfterBatch(grid)
    /\ UNCHANGED <<atlasVars, gridVars, last_read, n_reads, exit_reason, handles,
                   text_content, buffer, cursor_x, cursor_y, dirty, uiVars, histVars>>

\* w.write_all(response), w.flush(), and println! panics (stdout is closed)
\* while the writer guard is held
ReplyPanics ==
    /\ PtyAt("dsr_write")
    /\ stdin' = stdin \o ReplyBytes
    /\ locks' = Poisoned(locks)
    /\ status' = "panicked"
    /\ UNCHANGED <<atlasVars, grid, written, ptyVars, text_content, buffer, cursor_x,
                   cursor_y, dirty, uiVars, histVars>>

\* let mut text_lock = text_content_clone.lock().unwrap()
TextLock ==
    /\ pty_pc = "pub_text"
    /\ PtyTakes("text_content", "pub_text", "pub_text_held")

\* *text_lock = new_text.clone(), and the block ends
TextWrite ==
    /\ PtyAt("pub_text_held")
    /\ text_content' = to_string(grid)
    /\ locks' = Released(locks, "text_content")
    /\ pty_pc' = "pub_buffer"
    /\ UNCHANGED <<atlasVars, gridVars, last_read, n_reads, exit_reason, handles,
                   buffer, cursor_x, cursor_y, dirty, uiVars, stdin, histVars>>

\* let mut buffer_lock = buffer_clone.lock().unwrap()
BufferLock ==
    /\ pty_pc = "pub_buffer"
    /\ PtyTakes("buffer", "pub_buffer", "pub_font")

\* if let Ok(mut fs) = font_system_clone.lock()
FontLock ==
    /\ pty_pc = "pub_font"
    /\ PtyTakes("font_system", "pub_font", "pub_set")

\* buffer_lock.set_text(..), shape_until_scroll(..), and the block ends
SetText ==
    /\ PtyAt("pub_set")
    /\ buffer' = to_string(grid)
    /\ locks' = Released(Released(locks, "font_system"), "buffer")
    /\ pty_pc' = "pub_cx"
    /\ UNCHANGED <<atlasVars, gridVars, last_read, n_reads, exit_reason, handles,
                   text_content, cursor_x, cursor_y, dirty, uiVars, stdin, histVars>>

\* set_text or shape_until_scroll panics with both guards held
SetTextPanics ==
    /\ PtyAt("pub_set")
    /\ locks' = Poisoned(locks)
    /\ status' = "panicked"
    /\ UNCHANGED <<atlasVars, grid, written, ptyVars, text_content, buffer, cursor_x,
                   cursor_y, dirty, uiVars, stdin, histVars>>

\* cursor_x_clone.lock().unwrap()
CursorXLock ==
    /\ pty_pc = "pub_cx"
    /\ PtyTakes("cursor_x", "pub_cx", "pub_cx_held")

\* A faulty store that binds the guard of cursor_x to a name and keeps it.
CursorXWrite_keeps_guard ==
    /\ PtyAt("pub_cx_held")
    /\ cursor_x' = grid.cursor_x * FONT_SIZE
    /\ wrote' = [wrote EXCEPT !.cursor_x = "pty"]
    /\ pty_pc' = "pub_cy"
    /\ UNCHANGED <<atlasVars, gridVars, last_read, n_reads, exit_reason, handles,
                   text_content, buffer, cursor_y, dirty, locks, uiVars, stdin,
                   published>>

\* *guard = cursor_x, and the temporary guard is dropped
CursorXWrite ==
    /\ PtyAt("pub_cx_held")
    /\ cursor_x' = grid.cursor_x * FONT_SIZE
    /\ wrote' = [wrote EXCEPT !.cursor_x = "pty"]
    /\ locks' = Released(locks, "cursor_x")
    /\ pty_pc' = "pub_cy"
    /\ UNCHANGED <<atlasVars, gridVars, last_read, n_reads, exit_reason, handles,
                   text_content, buffer, cursor_y, dirty, uiVars, stdin, published>>

\* cursor_y_clone.lock().unwrap()
CursorYLock ==
    /\ pty_pc = "pub_cy"
    /\ PtyTakes("cursor_y", "pub_cy", "pub_cy_held")

\* *guard = cursor_y, and the temporary guard is dropped
CursorYWrite ==
    /\ PtyAt("pub_cy_held")
    /\ cursor_y' = grid.cursor_y * LINE_HEIGHT
    /\ wrote' = [wrote EXCEPT !.cursor_y = "pty"]
    /\ locks' = Released(locks, "cursor_y")
    /\ pty_pc' = "pub_dirty"
    /\ UNCHANGED <<atlasVars, gridVars, last_read, n_reads, exit_reason, handles,
                   text_content, buffer, cursor_x, dirty, uiVars, stdin, published>>

\* dirty_clone.lock().unwrap()
DirtyLock ==
    /\ pty_pc = "pub_dirty"
    /\ PtyTakes("dirty", "pub_dirty", "pub_dirty_held")

\* *guard = true, the temporary guard is dropped; after a batch,
\* performer.grid.dirty = false
DirtyWrite ==
    /\ PtyAt("pub_dirty_held")
    /\ dirty' = TRUE
    /\ wrote' = [wrote EXCEPT !.dirty = "pty"]
    /\ locks' = Released(locks, "dirty")
    /\ grid' = IF last_read = "data" THEN [grid EXCEPT !.dirty = FALSE] ELSE grid
    /\ pty_pc' = "read"
    /\ UNCHANGED <<atlasVars, written, status, last_read, n_reads, exit_reason, handles,
                   text_content, buffer, cursor_x, cursor_y, uiVars, stdin, published>>

PtyLocksNext ==
    \/ ReadBatch \/ ReplyLock \/ Reply \/ ReplyPanics
    \/ TextLock \/ TextWrite \/ BufferLock \/ FontLock \/ SetText \/ SetTextPanics
    \/ CursorXLock \/ CursorXWrite \/ CursorYLock \/ CursorYWrite
    \/ DirtyLock \/ DirtyWrite

\* A window event is delivered and its handler starts at point to.
UiEvent(to) ==
    /\ UiAt("idle")
    /\ n_ui < MaxUiEvents
    /\ n_ui' = n_ui + 1
    /\ ui_pc' = to

\* WindowEvent::KeyboardInput with the window focused
KeyEvent ==
    /\ UiEvent("key_lock")
    /\ \E k \in Keys : ui_key' = k /\ ui_writes' = KeyWrites(k)
    /\ UNCHANGED <<atlasVars, gridVars, ptyVars, sharedVars, frame, stdin, histVars>>

\* if let Ok(mut writer) = self.input_writer.lock(): Ok
KeyTakesWriter ==
    /\ UiAt("key_lock")
    /\ locks.input_writer = "free"
    /\ locks' = [locks EXCEPT !.input_writer = "ui"]
    /\ ui_pc' = "key_write"
    /\ UNCHANGED <<atlasVars, gridVars, ptyVars, text_content, buffer, cursor_x, cursor_y,
                   dirty, ui_key, ui_writes, n_ui, frame, stdin, histVars>>

\* A faulty handler that goes on to write although lock() returned Err.
KeySkipped_unwraps ==
    /\ UiAt("key_lock")
    /\ locks.input_writer = "poisoned"
    /\ ui_pc' = "key_write"
    /\ UNCHANGED <<atlasVars, gridVars, ptyVars, sharedVars, ui_key, ui_writes, n_ui,
                   frame, stdin, histVars>>

\* if let Ok(mut writer) = self.input_writer.lock(): Err, the key is dropped
KeySkipped ==
    /\ UiAt("key_lock")
    /\ locks.input_writer = "poisoned"
    /\ ui_writes' = <<>>
    /\ ui_pc' = "idle"
    /\ UNCHANGED <<atlasVars, gridVars, ptyVars, sharedVars, ui_key, n_ui, frame, stdin,
                   histVars>>

\* WindowEvent::RedrawRequested with a surface texture: render_frame starts
Redraw ==
    /\ UiEvent("render_lock")
    /\ UNCHANGED <<atlasVars, gridVars, ptyVars, sharedVars, ui_key, ui_writes, frame,
                   stdin, histVars>>

\* state.buffer.lock() and state.font_system.lock() both Ok; the PTY thread
\* holds font_system only with buffer held, so the two are taken in one step
RenderTakesBuffer ==
    /\ UiAt("render_lock")
    /\ locks.buffer = "free"
    /\ locks.font_system = "free"
    /\ locks' = [locks EXCEPT !.buffer = "ui", !.font_system = "ui"]
    /\ frame' = [state |-> "drawing", text |-> buffer, x |-> 0, y |-> 0]
    /\ ui_pc' = "render_cx"
    /\ UNCHANGED <<atlasVars, gridVars, ptyVars, text_content, buffer, cursor_x, cursor_y,
                   dirty, ui_key, ui_writes, n_ui, stdin, histVars>>

\* state.buffer.lock() or state.font_system.lock() is Err: "Failed to lock ..",
\* no vertices, the frame is presented empty
RenderSkipped ==
    /\ UiAt("render_lock")
    /\ locks.buffer = "poisoned" \/ locks.font_system = "poisoned"
    /\ frame' = [state |-> "skipped", text |-> <<>>, x |-> 0, y |-> 0]
    /\ ui_pc' = "idle"
    /\ UNCHANGED <<atlasVars, gridVars, ptyVars, sharedVars, ui_key, ui_writes, n_ui,
                   stdin, histVars>>

\* about_to_wait is called
AboutToWait ==
    /\ UiEvent("wait_text")
    /\ UNCHANGED <<atlasVars, gridVars, ptyVars, sharedVars, ui_key, ui_writes, frame,
                   stdin, histVars>>

\* if let Ok(text) = self.state.text_content.lock(): the text is compared with
\* last_text and the guard dropped
WaitReadsText ==
    /\ UiAt("wait_text")
    /\ locks.text_content = "free"
    /\ ui_pc' = "idle"
    /\ UNCHANGED <<atlasVars, gridVars, ptyVars, sharedVars, ui_key, ui_writes, n_ui,
                   frame, stdin, histVars>>

UiLocksNext ==
    \/ KeyEvent \/ KeyTakesWriter \/ KeySkipped
    \/ KeyWrite \/ KeyCursorX \/ KeyCursorY \/ KeyDirty
    \/ Redraw \/ RenderTakesBuffer \/ RenderSkipped \/ RenderCursorX \/ RenderCursorY
    \/ AboutToWait \/ WaitReadsText

LocksNext == PtyLocksNext \/ UiLocksNext

\* Both threads are scheduled: the PTY thread runs whenever it can take a step,
\* and so does the event loop.
SpecLocks ==
    Init /\ [][LocksNext]_vars /\ WF_vars(PtyLocksNext) /\ WF_vars(UiLocksNext)

(***************************************************************************)
(* The atlas on its own: render_frame's walk over the shaped glyphs asks   *)
(* for any key with any rasterised image, frame after frame.  The atlas is *)
(* private to the render context, so the session is left as it started.    *)
(***************************************************************************)
\* state.glyph_atlas.add_glyph(queue, key, &image)
AddGlyph ==
    \E key \in GlyphKeys : \E image \in Images :
        LET r == add_glyph(atlas, key, image)
        IN  /\ atlas' = r.atlas
            /\ texture_writes' = texture_writes \o r.writes
            /\ returned' = IF r.result.ok /\ key \notin DOMAIN returned
                           THEN [k \in DOMAIN returned \cup {key} |->
                                    IF k = key THEN r.result.rect ELSE returned[k]]
                           ELSE returned
            /\ last_result' = r.result
            /\ UNCHANGED <<gridVars, ptyVars, sharedVars, uiVars, stdin, histVars>>

AtlasNext == AddGlyph

SpecAtlas == Init /\ [][AtlasNext]_vars

(***************************************************************************)
(* Properties of the grid and the interpreter (SpecGrid)                   *)
(***************************************************************************)
\* C1: in every state reachable by prints, control bytes and CSI actions with
\* any parameters, the cursor is inside the grid: cursor_x < cols and
\* cursor_y < rows.
CursorInGrid == grid.cursor_x < grid.cols /\ grid.cursor_y < grid.rows

\* The cursor sits in the last cell of the 2x2 grid after a line has scrolled off.
CursorInLastCell ==
    /\ grid.rows = 2 /\ grid.cols = 2
    /\ grid.cursor_x = 1 /\ grid.cursor_y = 1
    /\ Len(grid.scrollback) = 1

\* A character that no input prints, to follow one print through the grid.
Mark == "z"

MarkedCells(g) ==
    {p \in (0..g.cols - 1) \X (0..g.rows - 1) : g.cells[p[2] + 1][p[1] + 1] = Mark}

\* C2: when a print fills the last column of a row, the cursor goes to column 0
\* of the next row, or stays on the last row after the top line has been appended
\* to the scrollback; the next character printed is stored there, in exactly one
\* cell, and every row keeps exactly cols cells.
WrapAtLastColumn ==
    grid.cursor_x = grid.cols - 1 =>
        \A c \in Chars :
            LET old_y == grid.cursor_y
                last == old_y = grid.rows - 1
                g1 == print_char(grid, c)
                g2 == print_char(g1, Mark)
                filled == [grid.cells[old_y + 1] EXCEPT ![grid.cols] = c]
            IN  /\ g1.cursor_x = 0
                /\ g1.cursor_y = IF last THEN grid.rows - 1 ELSE old_y + 1
                /\ g1.scrollback =
                      IF last
                      THEN Append(grid.scrollback,
                                  IF grid.rows = 1 THEN filled ELSE grid.cells[1])
                      ELSE grid.scrollback
                /\ g1.cells[IF last THEN Max(grid.rows - 1, 1) ELSE old_y + 1] =
                      IF last /\ grid.rows = 1 THEN BlankRow(grid.cols) ELSE filled
                /\ \A r \in 1..grid.rows :
                      Len(g1.cells[r]) = grid.cols /\ Len(g2.cells[r]) = grid.cols
                /\ IF grid.cols > 1 \/ g1.cursor_y < grid.rows - 1
                   THEN MarkedCells(g2) = {<<0, g1.cursor_y>>}
                   ELSE IF grid.rows > 1
                        THEN MarkedCells(g2) = {<<0, grid.rows - 2>>}
                        ELSE /\ MarkedCells(g2) = {}
                             /\ g2.scrollback[Len(g2.scrollback)] = <<Mark>>

\* Prints have filled the 2x2 grid, scrolled its first line off, and the cursor
\* is again in the last column of the last row.
FullRowOnLastLine ==
    /\ grid.rows = 2 /\ grid.cols = 2
    /\ grid.scrollback = << <<"a", "a">> >>
    /\ grid.cells = << <<"a", "a">>, <<"a", Blank>> >>
    /\ grid.cursor_x = 1 /\ grid.cursor_y = 1

\* C11: dispatch never fails hard: whatever bytes have been interpreted, with
\* any parameter value up to 65535, the interpreter has neither panicked on an
\* arithmetic underflow or cell index nor entered a loop that does not end.
InterpreterNeverFails == status = "running"

\* The events no arm recognises: a CSI with an unknown final byte, J and K with
\* a mode other than 0, 1, 2, 'n' with a parameter other than 6, the bell, and
\* the hook / put / unhook / osc / esc callbacks.
UnrecognisedEvents ==
    {CsiEv(VteParams(text), "m") : text \in CsiParamTexts("m")}
        \cup {CsiEv(<<p>>, a) : p \in ParamValues \ {0, 1, 2}, a \in {"J", "K"}}
        \cup {CsiEv(<<p>>, "n") : p \in ParamValues \ {6}}
        \cup {ExecuteEv(7)}
        \cup {OtherEv(k) : k \in IgnoredKinds}

\* C12: an unrecognised event leaves the whole grid (cells, cursor, scrollback,
\* scroll_offset, dirty flag) as it was and writes nothing to the writer handle.
UnrecognisedIsNoOp ==
    \A e \in UnrecognisedEvents : Perform(grid, e) = Result(grid, <<>>, FALSE)

\* A published grid (dirty cleared) with a character on the screen and the
\* cursor away from the origin: any change an event made would show.
CleanGridWithContent ==
    /\ ~grid.dirty
    /\ grid.cells[1][1] = "a"
    /\ grid.cursor_x = 1 /\ grid.cursor_y = 0

\* Every event the grid specification can deliver.
GridEvents ==
    {PrintEv(c) : c \in Chars}
        \cup {ExecuteEv(b) : b \in ControlBytes}
        \cup UNION {{CsiEv(VteParams(text), a) : text \in CsiParamTexts(a)} :
                       a \in CsiActions}
        \cup {OtherEv(k) : k \in IgnoredKinds}

\* C13: an event that changes a cell, the cursor or the scrollback leaves the
\* grid's dirty flag set.
MutationsSetDirty ==
    \A e \in GridEvents :
        LET g == Perform(grid, e).grid
        IN  \/ g.cells # grid.cells
            \/ g.cursor_x # grid.cursor_x \/ g.cursor_y # grid.cursor_y
            \/ g.scrollback # grid.scrollback
            => g.dirty

\* The decimal text of the 1-based coordinates of the grids explored.
CoordText == <<"1", "2", "3">>

\* ESC [ {cursor_y + 1} ; {cursor_x + 1} R for the cursor of g
ExpectedReply(g) ==
    <<"ESC", "[", CoordText[g.cursor_y + 1], ";", CoordText[g.cursor_x + 1], "R">>

\* C14: CSI 6 n writes exactly ESC [ row ; col R, with the 1-based cursor
\* position at the moment of dispatch, once, and leaves the grid as it was;
\* from the last cell of the 24x80 grid the bytes are ESC [ 2 4 ; 8 0 R.
DsrReplyExact ==
    /\ csi_dispatch(grid, <<6>>, "n") = Result(grid, ExpectedReply(grid), FALSE)
    /\ written \in {<<>>, ExpectedReply(grid)}
    /\ csi_dispatch(move_cursor(new(DEFAULT_ROWS, DEFAULT_COLS), 79, 23), <<6>>, "n").written
          = <<"ESC", "[", "2", "4", ";", "8", "0", "R">>

\* The interpreter has just answered a request with the cursor on row 2 (from
\* 0) of the single-column grid.
RepliedFromThirdRow == written = <<"ESC", "[", "3", ";", "1", "R">>

\* The grid g with its cursor at column x, row y, each clamped to the grid.
CursorAt(g, x, y) ==
    [g EXCEPT !.cursor_x = IF x < g.cols - 1 THEN x ELSE g.cols - 1,
              !.cursor_y = IF y < g.rows - 1 THEN y ELSE g.rows - 1,
              !.dirty = TRUE]

\* C15: CSI r ; c H and CSI r ; c f put the cursor at column min(c - 1, cols - 1),
\* row min(r - 1, rows - 1) and change nothing else on the screen; a parameter
\* left out (delivered as 0, or not delivered) counts as 1, so CSI H goes to
\* (0, 0).
CursorPositionMoves ==
    \A a \in {"H", "f"} :
        /\ \A r \in ParamValues : \A c \in ParamValues :
              csi_dispatch(grid, VteParams(<<r, c>>), a) =
                  Result(CursorAt(grid, IF c = 0 THEN 0 ELSE c - 1,
                                        IF r = 0 THEN 0 ELSE r - 1), <<>>, FALSE)
        /\ \A r \in ParamValues :
              csi_dispatch(grid, VteParams(<<r>>), a) =
                  Result(CursorAt(grid, 0, IF r = 0 THEN 0 ELSE r - 1), <<>>, FALSE)
        /\ csi_dispatch(grid, VteParams(<<>>), a) = Result(CursorAt(grid, 0, 0), <<>>, FALSE)

\* CSI 2 ; 1 H has moved the cursor of the 2x2 grid from behind a printed
\* character to the start of the second row.
CursorMovedToSecondRow ==
    /\ grid.rows = 2 /\ grid.cols = 2
    /\ grid.cells[1] = <<"a", Blank>>
    /\ grid.cursor_x = 0 /\ grid.cursor_y = 1
    /\ grid.scrollback = <<>>

\* C16: scroll_up followed at once by scroll_down gives row 0 its content of
\* before and the scrollback its length of before; scroll_up adds one to
\* scroll_offset and scroll_down takes it off again.
ScrollRoundTrip ==
    LET up == scroll_up(grid)
        back == scroll_down(up)
    IN  /\ back.cells[1] = grid.cells[1]
        /\ Len(back.scrollback) = Len(grid.scrollback)
        /\ up.scroll_offset = grid.scroll_offset + 1
        /\ back.scroll_offset = grid.scroll_offset

\* C17: from any grid, clear_screen, the form-feed byte 0x0C and CSI 2 J each
\* leave the cursor at (0, 0) and a blank in every cell of the rows x cols screen.
ClearScreenBlanksAll ==
    \A g \in {clear_screen(grid), Perform(grid, ExecuteEv(12)).grid,
              Perform(grid, CsiEv(<<2>>, "J")).grid} :
        /\ g.cursor_x = 0 /\ g.cursor_y = 0
        /\ g.rows = grid.rows /\ g.cols = grid.cols
        /\ Len(g.cells) = g.rows
        /\ \A r \in 1..g.rows :
              Len(g.cells[r]) = g.cols /\ \A c \in 1..g.cols : g.cells[r][c] = Blank

\* Three characters are on the 2x2 screen and the cursor is in its last cell.
ScreenWithThreeCharacters ==
    /\ grid.rows = 2 /\ grid.cols = 2
    /\ grid.cells = << <<"a", "a">>, <<"a", Blank>> >>
    /\ grid.cursor_x = 1 /\ grid.cursor_y = 1
    /\ grid.scrollback = <<>>

\* The events of the bytes of s followed by CR LF.
LineEvents(s) ==
    [i \in 1..Len(s) |-> PrintEv(s[i])] \o <<ExecuteEv(13), ExecuteEv(10)>>

\* Row 0 of g starts with s and is blank after it, row 1 is blank, the cursor is
\* at (0, 1), and to_string starts with those two lines.
LineThenBlankRow(g, s) ==
    LET row0 == s \o [c \in 1..(g.cols - Len(s)) |-> Blank]
    IN  /\ g.cells[1] = row0
        /\ g.cells[2] = BlankRow(g.cols)
        /\ g.cursor_x = 0 /\ g.cursor_y = 1
        /\ SubSeq(to_string(g), 1, 2 * g.cols + 1)
              = row0 \o <<"\n">> \o BlankRow(g.cols)

\* "hello\r\n" interpreted on the empty default grid of 80 columns and 24 rows
HelloOnDefaultGrid ==
    LET line == LineEvents(<<"h", "e", "l", "l", "o">>)
    IN  advance(new(DEFAULT_ROWS, DEFAULT_COLS), line, Len(line)).grid

\* C20: on an empty grid of two rows or more, the interpreter fed a printable
\* string s shorter than cols and then CR LF leaves row 0 holding s and blanks,
\* row 1 blank and the cursor at (0, 1); so it does for "hello" on 80x24.
LineFeedAfterText ==
    /\ LineThenBlankRow(HelloOnDefaultGrid, <<"h", "e", "l", "l", "o">>)
    /\ (/\ grid.rows >= 2
        /\ grid.cells = new(grid.rows, grid.cols).cells
        /\ grid.cursor_x = 0 /\ grid.cursor_y = 0
        /\ grid.scrollback = <<>>)
       => \A n \in 0..(grid.cols - 1) :
             LET s == [i \in 1..n |-> CHOOSE c \in Chars : TRUE]
                 r == advance(grid, LineEvents(s), n + 2)
             IN  ~r.fault /\ LineThenBlankRow(r.grid, s)

\* One character, CR and LF have been interpreted on the empty 2x2 grid.
LineEnteredOnEmptyGrid ==
    /\ grid.cells = << <<"a", Blank>>, <<Blank, Blank>> >>
    /\ grid.cursor_x = 0 /\ grid.cursor_y = 1
    /\ grid.scrollback = <<>>

\* C21: from any grid state (of a grid with more than one cell, as every grid the
\* program builds), ESC [ 2 J, then ESC [ H, then one printable
\* character c leave c in cell (0, 0) and a blank in every other cell.
ClearHomePrint ==
    \A c \in Chars \cup {Mark} :
        LET fed == <<CsiEv(<<2>>, "J"), CsiEv(VteParams(<<>>), "H"), PrintEv(c)>>
            r == advance(grid, fed, 3)
        IN  /\ ~r.fault
            /\ \A y \in 0..(grid.rows - 1) : \A x \in 0..(grid.cols - 1) :
                  r.grid.cells[y + 1][x + 1] = IF x = 0 /\ y = 0 THEN c ELSE Blank

\* The screen holds a character away from the origin, before the cursor, and
\* the cursor is off the origin.
ContentBeforeCursor ==
    /\ grid.rows = 2 /\ grid.cols = 2
    /\ grid.cells = << <<Blank, "a">>, <<Blank, Blank>> >>
    /\ grid.cursor_x = 1 /\ grid.cursor_y = 1

\* The cells of every row of g but row y (counted from 0) are those of h.
OtherRowsKept(h, g, y) ==
    \A r \in 1..g.rows : r # y + 1 => h.cells[r] = g.cells[r]

\* C26: CSI n P with n >= 1 at cursor (x, y) keeps the cells of row y left of x
\* and every other row, moves the cells of columns [x + n, cols) to columns
\* [x, cols - n), blanks the rest of the row, and keeps the cursor.
DeleteCharsShiftsTail ==
    \A n \in ParamValues \ {0} :
        LET r == Perform(grid, CsiEv(<<n>>, "P"))
            x == grid.cursor_x
            old == grid.cells[grid.cursor_y + 1]
            row == r.grid.cells[grid.cursor_y + 1]
        IN  /\ ~r.fault
            /\ r.grid.cursor_x = x /\ r.grid.cursor_y = grid.cursor_y
            /\ OtherRowsKept(r.grid, grid, grid.cursor_y)
            /\ \A c \in 0..(grid.cols - 1) :
                  row[c + 1] = IF c < x THEN old[c + 1]
                               ELSE IF c + n < grid.cols THEN old[c + n + 1]
                               ELSE Blank

\* The columns of the cursor's row that erase mode n selects.
LineColumns(g, n) ==
    CASE n = 0 -> g.cursor_x..(g.cols - 1)
      [] n = 1 -> 0..g.cursor_x
      [] OTHER -> 0..(g.cols - 1)

\* C27: CSI n K, n in 0..2, blanks the cells of the cursor's row in the columns
\* its mode selects ([cursor_x, cols), [0, cursor_x], all) and keeps every other
\* cell and the cursor.
EraseLineSelects ==
    \A n \in 0..2 :
        LET r == Perform(grid, CsiEv(<<n>>, "K"))
            old == grid.cells[grid.cursor_y + 1]
            row == r.grid.cells[grid.cursor_y + 1]
        IN  /\ r.grid.cursor_x = grid.cursor_x /\ r.grid.cursor_y = grid.cursor_y
            /\ OtherRowsKept(r.grid, grid, grid.cursor_y)
            /\ \A c \in 0..(grid.cols - 1) :
                  row[c + 1] = IF c \in LineColumns(grid, n) THEN Blank
                               ELSE old[c + 1]

\* The cells <<x, y>> of the screen that erase mode n selects.
DisplayCells(g, n) ==
    LET all == (0..(g.cols - 1)) \X (0..(g.rows - 1))
    IN  CASE n = 0 -> {p \in all : p[2] > g.cursor_y
                                     \/ (p[2] = g.cursor_y /\ p[1] >= g.cursor_x)}
          [] n = 1 -> {p \in all : p[2] < g.cursor_y
                                     \/ (p[2] = g.cursor_y /\ p[1] <= g.cursor_x)}
          [] OTHER -> all

\* C28: CSI n J, n in 0..2, blanks the cells its mode selects (from the cursor
\* to the end of the screen, from the start of the screen to the cursor
\* included, the whole screen) and keeps every other cell; modes 0 and 1 keep
\* the cursor.
EraseDisplaySelects ==
    \A n \in 0..2 :
        LET r == Perform(grid, CsiEv(<<n>>, "J"))
        IN  /\ n < 2 => /\ r.grid.cursor_x = grid.cursor_x
                        /\ r.grid.cursor_y = grid.cursor_y
            /\ \A y \in 0..(grid.rows - 1) : \A x \in 0..(grid.cols - 1) :
                  r.grid.cells[y + 1][x + 1] =
                      IF <<x, y>> \in DisplayCells(grid, n) THEN Blank
                      ELSE grid.cells[y + 1][x + 1]

\* The cursor of g moved by (dx, dy) and clamped to the grid.
Clamped(g, dx, dy) ==
    <<Min(Max(g.cursor_x + dx, 0), g.cols - 1),
      Min(Max(g.cursor_y + dy, 0), g.rows - 1)>>

\* C29: CSI n A, B, C, D move the cursor n cells up, down, right, left, clamped
\* to the grid, and touch no cell; the sequence written without a parameter
\* moves it one cell.
CursorMovesByParam ==
    \A text \in {<<>>} \cup {<<p>> : p \in ParamValues \ {0}} :
        LET n == IF text = <<>> THEN 1 ELSE text[1]
            after(a) == Perform(grid, CsiEv(VteParams(text), a)).grid
            at(a) == <<after(a).cursor_x, after(a).cursor_y>>
        IN  /\ at("A") = Clamped(grid, 0, -n)
            /\ at("B") = Clamped(grid, 0, n)
            /\ at("C") = Clamped(grid, n, 0)
            /\ at("D") = Clamped(grid, -n, 0)
            /\ \A a \in {"A", "B", "C", "D"} : after(a).cells = grid.cells

\* C30: newline() and the byte 0x0A scroll the grid up by one line when the
\* cursor is on the last row and otherwise add one to cursor_y; cursor_x, and
\* with it every cell, the scrollback and scroll_offset, are otherwise kept.
NewlineKeepsColumn ==
    \A g \in {newline(grid), Perform(grid, ExecuteEv(10)).grid} :
        /\ g.cursor_x = grid.cursor_x
        /\ g.scroll_offset = grid.scroll_offset
        /\ IF grid.cursor_y = grid.rows - 1
           THEN /\ g.cursor_y = grid.cursor_y
                /\ g.cells = scroll_up(grid).cells
                /\ g.scrollback = scroll_up(grid).scrollback
           ELSE /\ g.cursor_y = grid.cursor_y + 1
                /\ g.cells = grid.cells
                /\ g.scrollback = grid.scrollback

\* C36: scroll_offset is 0 in every reachable state, so it never exceeds the
\* length of the scrollback, and scroll_down and CSI T with any parameter leave
\* the whole grid, its cells and its scrollback included, as they found it.
ScrollOffsetAlwaysZero ==
    /\ grid.scroll_offset = 0
    /\ grid.scroll_offset <= Len(grid.scrollback)
    /\ scroll_down(grid) = grid
    /\ \A text \in CsiParamTexts("T") :
           Perform(grid, CsiEv(VteParams(text), "T")).grid = grid

\* A line with a character in it is in the scrollback and another is on the
\* screen: scroll_down would have a line to bring back if the offset allowed it.
LineHeldInScrollback ==
    /\ Len(grid.scrollback) = 1
    /\ \E c \in 1..grid.cols : grid.scrollback[1][c] = "a"
    /\ \E r \in 1..grid.rows : \E c \in 1..grid.cols : grid.cells[r][c] = "a"

(***************************************************************************)
(* Properties of the running terminal (Spec)                               *)
(***************************************************************************)
\* TRUE iff pat occurs in text as a run of consecutive elements.
Contains(text, pat) ==
    \E t \in {text} :
        \E i \in 1..(Len(t) - Len(pat) + 1) :
            \A j \in 1..Len(pat) : t[i + j - 1] = pat[j]

\* The cells of the screen, row after row.
CellText(g) == ConcatLines(g.cells, g.rows)

\* C3: every frame drawn from values the PTY thread published shows a text and
\* a cursor position that the PTY thread published together, in one publish step.
NoTornFrame ==
    frame.state = "drawn" /\ wrote.cursor_x # "ui" /\ wrote.cursor_y # "ui" =>
        Snapshot(frame.text, frame.x, frame.y) \in published

\* C4: the bytes of one key press and the bytes of one Device Status Report
\* reply each reach the child's stdin as one uninterrupted run, and
\* handle_input makes its writes while the input-writer lock is held.
StdinSerialized ==
    /\ \A i \in 1..Len(stdin) : \A j \in i..Len(stdin) :
          stdin[i].src = stdin[j].src /\ stdin[i].id = stdin[j].id =>
              \A k \in i..j :
                  stdin[k].src = stdin[i].src /\ stdin[k].id = stdin[i].id
    /\ ui_pc \in {"key_write", "key_cx", "key_cy", "key_dirty"} =>
          locks.input_writer = "ui"

\* The stream holds a whole cursor-position reply and the CR LF of an Enter key.
ReplyAndEnterOnStdin ==
    /\ \E i \in 1..Len(stdin) : stdin[i].src = "dsr" /\ stdin[i].b = "R"
    /\ \E i \in 1..Len(stdin) : stdin[i].src = "key" /\ stdin[i].b = "LF"

\* C5: the shared cursor position and the shared dirty flag are written by the
\* PTY read-loop thread only, never by the render/input context.
SingleWriter ==
    wrote.cursor_x # "ui" /\ wrote.cursor_y # "ui" /\ wrote.dirty # "ui"

\* C6 as stated: the read loop ends on EOF only when PTY allocation fails.
EofExitOnlyWhenOpenptyFails ==
    pty_pc = "exited" /\ last_read = "eof" => exit_reason = "openpty_failed"

DiagOf(reason) ==
    CASE reason = "openpty_failed" -> DiagOpenpty
      [] reason = "spawn_failed" -> DiagSpawn
      [] OTHER -> DiagClone

\* C6, amended: each read of 0 bytes either replaces child, master and reader by
\* those of a new session and stays in the loop, or ends the loop because
\* openpty, spawn_command or try_clone_reader failed, and then the grid holds
\* the diagnostic line of that failure.
RespawnsOrLeavesDiagnostic ==
    [][n_reads' # n_reads /\ last_read' = "eof" =>
          \/ /\ pty_pc' = "exited"
             /\ exit_reason' \in {"openpty_failed", "spawn_failed", "clone_failed"}
             /\ Contains(CellText(grid'), DiagOf(exit_reason'))
          \/ /\ pty_pc' = "pub_text"
             /\ handles'.child = handles.master + 1
             /\ handles'.master = handles.master + 1
             /\ handles'.reader = handles.master + 1]_vars

\* The loop has respawned once and then ended because the shell did not spawn.
GaveUpAtSpawnAfterRespawn ==
    /\ pty_pc = "exited" /\ exit_reason = "spawn_failed"
    /\ handles.master = 2 /\ handles.reader = 2

\* C7: a read error ends the read loop, and from then on nothing is respawned,
\* the grid stays as it was, and text, shaped buffer, cursor and dirty flag of
\* the shared render state get no further write from the PTY thread.
InertAfterReadError ==
    [][last_read' = "error" =>
          /\ pty_pc' = "exited" /\ exit_reason' = "read_error"
          /\ grid' = grid /\ handles' = handles
          /\ text_content' = text_content /\ buffer' = buffer
          /\ published' = published
          /\ \A k \in {"cursor_x", "cursor_y", "dirty"} :
                wrote'[k] # wrote[k] => wrote'[k] = "ui"
          /\ (cursor_x' # cursor_x \/ cursor_y' # cursor_y) =>
                ui_pc \in {"key_cx", "key_cy"}]_vars

\* The loop ended on a read error after output had been read and published, and
\* a window event has been handled since.
InertWithOutputKept ==
    /\ pty_pc = "exited" /\ exit_reason = "read_error"
    /\ Len(grid.scrollback) = 1
    /\ n_ui = 1 /\ ui_pc = "idle"

\* The screen of a terminal that has printed the banner and nothing else, and
\* the text of that screen: its rows, each but the last followed by a newline.
BannerScreen ==
    [r \in 1..DEFAULT_ROWS |->
        [c \in 1..DEFAULT_COLS |->
            IF r = 1 /\ c <= Len(Banner) THEN Banner[c] ELSE Blank]]

BannerText ==
    [i \in 1..(DEFAULT_ROWS * DEFAULT_COLS + DEFAULT_ROWS - 1) |->
        IF i <= Len(Banner) THEN Banner[i]
        ELSE IF i % (DEFAULT_COLS + 1) = 0 THEN "\n" ELSE Blank]

\* C8: once the publish that follows a successful respawn has been made, the
\* published text is the banner followed by blank cells only, the shaped buffer
\* holds the same text, the scrollback is empty, scroll_offset is 0 and the
\* screen holds the banner and nothing written before the EOF.
RespawnPublishesFreshBanner ==
    last_read = "eof" /\ pty_pc \in {"pub_buffer", "pub_cx", "pub_cy", "pub_dirty", "read"} =>
        /\ text_content = BannerText
        /\ pty_pc # "pub_buffer" => buffer = BannerText
        /\ grid.scrollback = <<>> /\ grid.scroll_offset = 0
        /\ grid.cells = BannerScreen

\* A respawn has been published after a snapshot with a scrollback line in it.
RespawnedAfterOutput ==
    /\ last_read = "eof" /\ pty_pc = "read"
    /\ \E s \in published : Len(s.text) > grid.rows * grid.cols + grid.rows - 1

\* C9: the cursor position published after a successful respawn is
\* (0, LINE_HEIGHT).
RespawnCursorAtLineOne ==
    /\ last_read = "eof" /\ pty_pc = "read"
    /\ wrote.cursor_x = "pty" /\ wrote.cursor_y = "pty"
    => cursor_x = 0 /\ cursor_y = LINE_HEIGHT

\* "[Shell exited, restarting...]"
ShellExitedText == SubSeq(ExitNotice, 2, Len(ExitNotice) - 1)

\* C10: after a read of 0 bytes and the publish that follows it, some published
\* snapshot contains the notice "[Shell exited, restarting...]".
ExitNoticePublished ==
    last_read = "eof" /\ pty_pc = "read" =>
        \E s \in published : Contains(s.text, ShellExitedText)

\* The PTY thread goes from one point of its loop to another.
PtyGoes(from, to) == pty_pc = from /\ pty_pc' = to

\* A read that returned n > 0 bytes has been made and its batch interpreted.
BatchRead == pty_pc = "read" /\ last_read' = "data" /\ n_reads' = n_reads + 1

\* C24: a read-loop iteration with n > 0 whose batch leaves the grid dirty
\* writes to_string() of the grid to the shared text and the shaped buffer,
\* cursor_x * FONT_SIZE and cursor_y * LINE_HEIGHT to the shared cursor and TRUE
\* to the shared dirty flag, and then clears the grid's own flag; an iteration
\* whose batch leaves the grid clean goes back to read and writes nothing to the
\* shared state.
DirtyBatchPublished ==
    [][/\ BatchRead =>
             /\ UNCHANGED <<text_content, buffer, cursor_x, cursor_y, dirty>>
             /\ pty_pc' = IF grid'.dirty THEN "pub_text" ELSE "read"
       /\ PtyGoes("pub_text", "pub_buffer") =>
             text_content' = to_string(grid) /\ grid' = grid
       /\ PtyGoes("pub_buffer", "pub_cx") =>
             buffer' = to_string(grid) /\ grid' = grid
       /\ PtyGoes("pub_cx", "pub_cy") =>
             cursor_x' = grid.cursor_x * FONT_SIZE /\ grid' = grid
       /\ PtyGoes("pub_cy", "pub_dirty") =>
             cursor_y' = grid.cursor_y * LINE_HEIGHT /\ grid' = grid
       /\ PtyGoes("pub_dirty", "read") =>
             /\ dirty' = TRUE
             /\ last_read = "data" => grid' = [grid EXCEPT !.dirty = FALSE]
      ]_vars

\* The first batch was published and the grid's flag cleared; the second, a
\* request for a status report, left the grid clean and the loop is back at read.
CleanBatchAfterPublishedBatch ==
    /\ pty_pc = "read" /\ last_read = "data" /\ n_reads = 2
    /\ ~grid.dirty
    /\ handles.reader = 1
    /\ Len(grid.scrollback) = 1
    /\ \E i \in 1..Len(stdin) : stdin[i].src = "dsr" /\ stdin[i].id = 1
    /\ text_content = to_string(grid)

\* C25: once a respawn has succeeded (the reader belongs to a session later than
\* the first), the writer handle, which the interpreter answers status requests
\* on and handle_input forwards keystrokes on, belongs to that session too.
WriterFollowsRespawn ==
    handles.reader > 1 => handles.writer = handles.reader

(***************************************************************************)
(* The same with the respawn in it: the Ok(0) arm of the read loop sets up  *)
(* a new session and publishes the fresh banner through the same mutexes.  *)
(***************************************************************************)
LocksRespawnNext == LocksNext \/ ReadEof

SpecLocksRespawn == Init /\ [][LocksRespawnNext]_vars

\* C38: no cell holds a line-break character, whatever the shell has sent and
\* whatever the read loop has printed itself (banner, exit notice, diagnostics,
\* banner after a respawn), so that to_string() is len(scrollback) -
\* scroll_offset + rows lines of cols characters each, separated by line breaks.
NoLineBreakInCells ==
    /\ \A r \in 1..grid.rows : \A c \in 1..grid.cols : grid.cells[r][c] # "\n"
    /\ LET text == to_string(grid)
           lines == Len(grid.scrollback) - grid.scroll_offset + grid.rows
       IN  /\ Len(text) = lines * grid.cols + lines - 1
           /\ \A i \in 1..Len(text) : text[i] = "\n" <=> i % (grid.cols + 1) = 0

(***************************************************************************)
(* Properties of scrolling (SpecScroll)                                    *)
(***************************************************************************)
\* scroll_up applied to g gives h: row 0 of g is the last scrollback line of h
\* behind all those of g, every other row has moved up by one, the bottom row
\* is blank, and the cursor and scroll_offset are those of g.
Promoted(g, h) ==
    /\ h.scrollback = g.scrollback \o <<g.cells[1]>>
    /\ \A r \in 1..(g.rows - 1) : h.cells[r] = g.cells[r + 1]
    /\ h.cells[g.rows] = BlankRow(g.cols)
    /\ h.cursor_x = g.cursor_x /\ h.cursor_y = g.cursor_y
    /\ h.scroll_offset = g.scroll_offset
    /\ h.rows = g.rows /\ h.cols = g.cols

\* C31: on every reachable grid scroll_up appends row 0 as the newest scrollback
\* line, moves every row i+1 to row i, blanks the bottom row and keeps the
\* cursor and scroll_offset; and every print, line feed, CSI S and CSI T keeps
\* the scrollback lines it found, in their order, in front of the lines it
\* promotes, so the scrollback is always oldest first.
ScrollUpPromotesTopRow ==
    /\ [] Promoted(grid, scroll_up(grid))
    /\ [][LET n == Len(grid.scrollback)
          IN  /\ Len(grid'.scrollback) >= n
              /\ SubSeq(grid'.scrollback, 1, n) = grid.scrollback
              /\ grid'.scroll_offset = grid.scroll_offset]_vars

\* Two lines were promoted from a 2x2 screen, "a " before "aa", and the
\* scrollback holds them in that order.
TwoLinesPromotedInOrder ==
    /\ grid.rows = 2 /\ grid.cols = 2
    /\ grid.scrollback = << <<"a", Blank>>, <<"a", "a">> >>

(***************************************************************************)
(* Properties of the two contexts with every guard followed (SpecLocks)    *)
(***************************************************************************)
\* The event loop is at a lock() on mutex l.
UiWaitsFor(l) ==
    \/ l = "input_writer" /\ ui_pc = "key_lock"
    \/ l \in {"buffer", "font_system"} /\ ui_pc = "render_lock"
    \/ l = "text_content" /\ ui_pc = "wait_text"
    \/ l = "cursor_x" /\ ui_pc \in {"key_cx", "render_cx"}
    \/ l = "cursor_y" /\ ui_pc \in {"key_cy", "render_cy"}
    \/ l = "dirty" /\ ui_pc = "key_dirty"

\* The event loop is at a lock() on a mutex that the PTY thread holds.
UiBlockedByPty == \E l \in LockNames : UiWaitsFor(l) /\ locks[l] = "pty"

\* C22: with both threads scheduled, whenever the event loop is at a lock()
\* on a mutex of the shared state (text, shaped buffer, font system, cursor
\* x and y, dirty flag, input writer) that the PTY thread holds, its handler
\* later returns: it got that guard and every later one, or lock() returned
\* Err and the handler skipped.
RenderNeverBlocksForever == UiBlockedByPty ~> (ui_pc = "idle")

\* render_frame is at buffer.lock() while the PTY thread is inside set_text
\* with the buffer and the font system locked.
RenderWaitsForPublish ==
    /\ ui_pc = "render_lock"
    /\ pty_pc = "pub_set"
    /\ locks.buffer = "pty"
    /\ locks.font_system = "pty"

\* The PTY thread is at a lock() on mutex l.
PtyWaitsFor(l) ==
    /\ status = "running"
    /\ \/ l = "input_writer" /\ pty_pc = "dsr_lock"
       \/ l = "text_content" /\ pty_pc = "pub_text"
       \/ l = "buffer" /\ pty_pc = "pub_buffer"
       \/ l = "font_system" /\ pty_pc = "pub_font"
       \/ l = "cursor_x" /\ pty_pc = "pub_cx"
       \/ l = "cursor_y" /\ pty_pc = "pub_cy"
       \/ l = "dirty" /\ pty_pc = "pub_dirty"

\* The one order in which the mutexes are taken when more than one is held:
\* the input writer, the shaped buffer, the font system, cursor x, cursor y,
\* the dirty flag; the text is only ever locked alone.
Rank(l) ==
    CASE l = "input_writer" -> 1
      [] l = "buffer" -> 2
      [] l = "font_system" -> 3
      [] l = "cursor_x" -> 4
      [] l = "cursor_y" -> 5
      [] l = "dirty" -> 6
      [] OTHER -> 7

\* The thread that is at a lock() on l holds no mutex that comes at or after l
\* in the order.
TakenInOrder(thread, l) == \A h \in LockNames : locks[h] = thread => Rank(h) < Rank(l)

\* C37: in no reachable state is each thread at a lock() on a mutex the other
\* holds, and whenever a thread takes a mutex while it holds others, those come
\* before it in one order (shaped buffer before font system; input writer
\* before cursor x before cursor y before dirty flag), in the publish after a
\* batch and in the publish after a respawn alike.
NoDeadlockOneLockOrder ==
    /\ ~ \E l1 \in LockNames : \E l2 \in LockNames :
            /\ UiWaitsFor(l1) /\ locks[l1] = "pty"
            /\ PtyWaitsFor(l2) /\ locks[l2] = "ui"
    /\ \A l \in LockNames :
            /\ UiWaitsFor(l) => TakenInOrder("ui", l)
            /\ PtyWaitsFor(l) => TakenInOrder("pty", l)

\* An Enter key press holds the input writer and cursor x and is at the lock()
\* on cursor y, which the PTY thread holds for its store after a respawn, the
\* shaped buffer and the font system being free again.
BothThreadsHoldLocks ==
    /\ ui_pc = "key_cy" /\ ui_key = "enter"
    /\ locks.input_writer = "ui" /\ locks.cursor_x = "ui"
    /\ pty_pc = "pub_cy_held" /\ locks.cursor_y = "pty"
    /\ last_read = "eof"

\* The mutexes whose lock() result the event loop unwraps.
UnwrappedByUi == {"cursor_x", "cursor_y", "dirty"}

\* The handler that met a poisoned mutex ends without touching the shared
\* state or the child's stdin.
SkipsUpdate == ui_pc' = "idle" /\ UNCHANGED <<sharedVars, stdin>>

GlyphCacheHit ==
    \A key \in DOMAIN returned : \A image \in Images :
        LET r == add_glyph(atlas, key, image)
        IN  /\ r.result = Ok(returned[key])
            /\ r.writes = <<>>
            /\ r.atlas = atlas

\* Two glyphs are in the atlas and the latest call returned the first one's
\* rectangle: a request for a key that was already cached.
SecondRequestServedFromCache ==
    /\ Len(texture_writes) = 2
    /\ last_result = Ok(texture_writes[1])

\* The heights of the glyphs placed in the current row of a.
RowHeights(a) ==
    {a.cache[k][4] : k \in {q \in DOMAIN a.cache : a.cache[q][2] = a.current_y}}

\* C19: an uncached glyph that is placed goes, when current_x + w exceeds the
\* atlas width, to x = 0 and y = the row's y plus the largest height placed in
\* that row, and otherwise to (current_x, current_y); current_x then stands w
\* past the glyph's x.
ShelfPacking ==
    \A key \in GlyphKeys \ DOMAIN atlas.cache : \A image \in Images :
        LET r == add_glyph(atlas, key, image)
            w == image.width
            tallest == IF RowHeights(atlas) = {} THEN 0
                       ELSE CHOOSE h \in RowHeights(atlas) :
                                \A o \in RowHeights(atlas) : o <= h
        IN  r.result.ok =>
               /\ r.writes = <<r.result.rect>>
               /\ r.atlas.cache[key] = r.result.rect
               /\ IF atlas.current_x + w > atlas.atlas_size
                  THEN /\ r.result.rect =
                             <<0, atlas.current_y + tallest, w, image.height>>
                       /\ r.atlas.current_x = w
                  ELSE /\ r.result.rect =
                             <<atlas.current_x, atlas.current_y, w, image.height>>
                       /\ r.atlas.current_x = atlas.current_x + w

\* A row of a low and a tall glyph is full and the third glyph has been placed
\* at the start of the next row, below the tall one.
WrappedBelowTallestGlyph ==
    texture_writes = << <<0, 0, 2, 1>>, <<2, 0, 1, 2>>, <<0, 2, 1, 1>> >>


\* The text of the error add_glyph returns when the atlas is full.
OutOfSpace == Err("Glyph atlas out of space")

\* The glyph has room below the top of the row it goes to: the current row, or
\* the next one when its width does not fit the rest of the current row.
HasRoom(a, image) ==
    LET y == IF a.current_x + image.width > a.atlas_size
             THEN a.current_y + a.row_height ELSE a.current_y
    IN  y + image.height <= a.atlas_size

\* C32: in every reachable atlas, also after failed calls, add_glyph for an
\* uncached key and a non-empty image returns the out-of-space error exactly
\* when the glyph has no room and Ok when it has; a failed call records no
\* rectangle for the key, leaves the other rectangles alone and issues no
\* texture write.
AtlasFullExactlyWhenNoRoom ==
    \A key \in GlyphKeys \ DOMAIN atlas.cache : \A image \in Images :
        image.width # 0 /\ image.height # 0 =>
            LET r == add_glyph(atlas, key, image)
            IN  /\ r.result = OutOfSpace <=> ~HasRoom(atlas, image)
                /\ r.result.ok <=> HasRoom(atlas, image)
                /\ ~r.result.ok => r.atlas.cache = atlas.cache /\ r.writes = <<>>

\* The latest call failed for lack of room with a glyph already placed, and a
\* glyph for a key not yet cached still fits and will be placed.
FullForOneGlyphNotForAnother ==
    /\ last_result = OutOfSpace
    /\ texture_writes # <<>>
    /\ \E key \in GlyphKeys \ DOMAIN atlas.cache : \E image \in Images :
           add_glyph(atlas, key, image).result.ok


\* Two rectangles <<x, y, w, h>> have a pixel in common.
Overlap(p, q) ==
    /\ p[1] < q[1] + q[3] /\ q[1] < p[1] + p[3]
    /\ p[2] < q[2] + q[4] /\ q[2] < p[2] + p[4]

\* C33: after any sequence of add_glyph calls, placed, served from the cache or
\* failed, the rectangles recorded under two different keys have no pixel in
\* common.
RectanglesDisjoint ==
    \A k1 \in DOMAIN atlas.cache : \A k2 \in DOMAIN atlas.cache :
        k1 # k2 => ~Overlap(atlas.cache[k1], atlas.cache[k2])

\* Three glyphs are recorded, not all in one row, and the latest call was served
\* from the cache.
ThreeGlyphsInTwoRows ==
    /\ Cardinality(DOMAIN atlas.cache) = 3
    /\ \E k1 \in DOMAIN atlas.cache : \E k2 \in DOMAIN atlas.cache :
           atlas.cache[k1][2] # atlas.cache[k2][2]
    /\ Len(texture_writes) = 3
    /\ last_result.ok /\ last_result.rect # texture_writes[3]


\* The rectangle <<x, y, w, h>> lies inside the texture of side n.
Inside(rect, n) == rect[1] + rect[3] <= n /\ rect[2] + rect[4] <= n

\* C34: every rectangle recorded in the cache and every texture write issued
\* lies inside the atlas_size x atlas_size texture, whatever the width and the
\* height of the glyph images, a width greater than atlas_size included.
RectanglesInsideTexture ==
    /\ \A k \in DOMAIN atlas.cache : Inside(atlas.cache[k], atlas.atlas_size)
    /\ \A i \in 1..Len(texture_writes) : Inside(texture_writes[i], atlas.atlas_size)

\* C35: an add_glyph call that returns an error, for an empty image or for
\* lack of room, leaves the atlas as it was: the cache, current_x, current_y
\* and row_height are those before the call.
FailedCallLeavesAtlasUnchanged ==
    \A key \in GlyphKeys : \A image \in Images :
        LET r == add_glyph(atlas, key, image)
        IN  ~r.result.ok => r.atlas = atlas
====
